---- MODULE Spec2Model ----
(***************************************************************************)
(* A model of go-docker's hello_server.go: the request handlers            *)
(* (getClientIP, userAgentHandler, echoHandler, redisHandler) applied to   *)
(* bounded sets of requests, and the process lifecycle (main, the          *)
(* goroutine running ListenAndServe, waitForShutdown).                     *)
(*                                                                         *)
(* Strings the code inspects character by character (header values, the    *)
(* peer address, the user agent) are sequences of one-character strings;   *)
(* strings the code only compares, formats or copies (query parameters,    *)
(* bodies, messages) are TLA+ strings.                                     *)
(***************************************************************************)
EXTENDS Integers, Sequences, FiniteSets, TLC

VARIABLES
    req,        \* the request handed to a handler (*http.Request)
    resp,       \* what the handler wrote to the http.ResponseWriter
    cache,      \* the Redis collaborator behind rdb: its keys and its health
    mainPC,     \* position of the main goroutine (main, then waitForShutdown)
    servePC,    \* position of the goroutine that runs srv.ListenAndServe
    env,        \* the environment main starts in (REDIS_DB, Redis, port 8080)
    sigChan,    \* interruptChan, a buffered channel of capacity 1
    inShutdown, \* srv.Shutdown has been entered: the listener is closed
    inflight,   \* requests accepted and still being handled
    accepted,   \* connections accepted so far
    responded,  \* requests whose response has been produced
    elapsed,    \* seconds since the shutdown context was created
    exitStatus  \* "running", or how the process ended

reqVars  == <<req, resp, cache>>
lifeVars == <<mainPC, servePC, env, sigChan, inShutdown, inflight, accepted,
              responded, elapsed, exitStatus>>
vars     == <<req, resp, cache, mainPC, servePC, env, sigChan, inShutdown,
              inflight, accepted, responded, elapsed, exitStatus>>

----------------------------------------------------------------------------
(* Bounds *)

\* longest X-Forwarded-For value enumerated exhaustively
MaxXFFLen == 3
\* longest peer address enumerated exhaustively
MaxAddrLen == 3
\* most keywords concatenated into one user-agent string
MaxTokens == 3
\* most requests handled at the same time
MaxConns == 2
\* most connections the accept loop takes in one run
MaxAccepts == 3

----------------------------------------------------------------------------
(* Strings as sequences of characters: the Go library functions used *)

\* every sequence over alphabet of length at most n
StringsUpTo(alphabet, n) == UNION {[1..k -> alphabet] : k \in 0..n}

\* unicode.IsSpace, on the characters the model uses
IsSpace(c) == c \in {" ", "\t", "\n", "\r", "\f"}

\* strings.Index for a one-character separator: 0 when absent
IndexByte(s, c) ==
    IF \E i \in 1..Len(s) : s[i] = c
    THEN CHOOSE i \in 1..Len(s) : s[i] = c /\ \A j \in 1..(i-1) : s[j] # c
    ELSE 0

\* strings.LastIndex for a one-character separator: 0 when absent
LastIndexByte(s, c) ==
    IF \E i \in 1..Len(s) : s[i] = c
    THEN CHOOSE i \in 1..Len(s) : s[i] = c /\ \A j \in (i+1)..Len(s) : s[j] # c
    ELSE 0

\* strings.Contains
Contains(s, substr) ==
    \E i \in 0..(Len(s) - Len(substr)) : SubSeq(s, i + 1, i + Len(substr)) = substr

\* strings.Split(s, sep) for a one-character sep: never empty, s itself when
\* sep does not occur
RECURSIVE Split(_, _)
Split(s, sep) ==
    LET i == IndexByte(s, sep) IN
    IF i = 0 THEN <<s>>
    ELSE <<SubSeq(s, 1, i - 1)>> \o Split(SubSeq(s, i + 1, Len(s)), sep)

RECURSIVE TrimLeft(_)
TrimLeft(s) ==
    IF Len(s) > 0 /\ IsSpace(s[1]) THEN TrimLeft(Tail(s)) ELSE s

RECURSIVE TrimRight(_)
TrimRight(s) ==
    IF Len(s) > 0 /\ IsSpace(s[Len(s)]) THEN TrimRight(SubSeq(s, 1, Len(s) - 1)) ELSE s

\* strings.TrimSpace
TrimSpace(s) == TrimRight(TrimLeft(s))

\* net.SplitHostPort: [ok, host, port], ok = FALSE for an *AddrError
AddrErr == [ok |-> FALSE, host |-> <<>>, port |-> <<>>]

SplitHostPort(hostport) ==
    LET n == Len(hostport)
        i == LastIndexByte(hostport, ":")
        end == IndexByte(hostport, "]")
        bracketed == hostport[1] = "["
        j == IF bracketed THEN 1 ELSE 0
        k == IF bracketed THEN end ELSE 0
        host == IF bracketed THEN SubSeq(hostport, 2, end - 1)
                ELSE SubSeq(hostport, 1, i - 1)
    IN
    IF i = 0 THEN AddrErr                              \* missing port
    ELSE IF bracketed /\ end = 0 THEN AddrErr          \* missing ']'
    ELSE IF bracketed /\ end = n THEN AddrErr          \* missing port
    ELSE IF bracketed /\ end + 1 # i THEN AddrErr      \* too many colons, or missing port
    ELSE IF ~bracketed /\ IndexByte(host, ":") # 0 THEN AddrErr   \* too many colons
    ELSE IF IndexByte(SubSeq(hostport, j + 1, n), "[") # 0 THEN AddrErr
    ELSE IF IndexByte(SubSeq(hostport, k + 1, n), "]") # 0 THEN AddrErr
    ELSE [ok |-> TRUE, host |-> host, port |-> SubSeq(hostport, i + 1, n)]

----------------------------------------------------------------------------
(* Requests *)

\* http.Header.Get: the first value of the header, "" when it is absent.
\* A header is the sequence of its values.
HeaderGet(h) == IF Len(h) = 0 THEN <<>> ELSE h[1]

\* url.Values.Get: the first value of the parameter, "" when it is absent
QueryGet(q) == IF Len(q) = 0 THEN "" ELSE q[1]

----------------------------------------------------------------------------
(* getClientIP *)

\* getClientIP with X-Real-Ip consulted before X-Forwarded-For
getClientIPRealIpFirst(r) ==
    LET xff == HeaderGet(r.xff)
        xr == HeaderGet(r.xri)
        hp == SplitHostPort(r.remoteAddr)
    IN
    IF xr # <<>> THEN xr
    ELSE IF xff # <<>> THEN TrimSpace(Split(xff, ",")[1])
    ELSE IF ~hp.ok THEN r.remoteAddr
    ELSE hp.host

\* getClientIP returning the host it was given when the parse failed
getClientIPHostOnError(r) ==
    LET xff == HeaderGet(r.xff)
        xr == HeaderGet(r.xri)
        hp == SplitHostPort(r.remoteAddr)
    IN
    IF xff # <<>> THEN TrimSpace(Split(xff, ",")[1])
    ELSE IF xr # <<>> THEN xr
    ELSE hp.host

getClientIP(r) ==
    LET xff == HeaderGet(r.xff)
        xr == HeaderGet(r.xri)
        hp == SplitHostPort(r.remoteAddr)
    IN
    IF xff # <<>> THEN TrimSpace(Split(xff, ",")[1])
    ELSE IF xr # <<>> THEN xr
    ELSE IF ~hp.ok THEN r.remoteAddr
    ELSE hp.host

----------------------------------------------------------------------------
(* userAgentHandler: the keywords it looks for, and its two switches *)

kwOPR == <<"O", "P", "R">>
kwOpera == <<"O", "p", "e", "r", "a">>
kwEdg == <<"E", "d", "g">>
kwEdge == <<"E", "d", "g", "e">>
kwChrome == <<"C", "h", "r", "o", "m", "e">>
kwChromium == <<"C", "h", "r", "o", "m", "i", "u", "m">>
kwFirefox == <<"F", "i", "r", "e", "f", "o", "x">>
kwSafari == <<"S", "a", "f", "a", "r", "i">>
kwMSIE == <<"M", "S", "I", "E">>
kwTrident == <<"T", "r", "i", "d", "e", "n", "t">>
kwWindows == <<"W", "i", "n", "d", "o", "w", "s">>
kwMacintosh == <<"M", "a", "c", "i", "n", "t", "o", "s", "h">>
kwAndroid == <<"A", "n", "d", "r", "o", "i", "d">>
kwiPhone == <<"i", "P", "h", "o", "n", "e">>
kwiPad == <<"i", "P", "a", "d">>
kwLinux == <<"L", "i", "n", "u", "x">>

\* the first switch with the Chrome case ahead of the Edge case
browserChromeBeforeEdge(ua) ==
    IF Contains(ua, kwOPR) \/ Contains(ua, kwOpera) THEN "Opera"
    ELSE IF Contains(ua, kwChrome) /\ ~Contains(ua, kwChromium) THEN "Chrome"
    ELSE IF Contains(ua, kwEdg) \/ Contains(ua, kwEdge) THEN "Edge"
    ELSE IF Contains(ua, kwChromium) THEN "Chromium"
    ELSE IF Contains(ua, kwFirefox) THEN "Firefox"
    ELSE IF Contains(ua, kwSafari) /\ ~Contains(ua, kwChrome) THEN "Safari"
    ELSE IF Contains(ua, kwMSIE) \/ Contains(ua, kwTrident) THEN "Internet Explorer"
    ELSE "Unknown"

\* the first switch with the Safari case ahead of the Chrome case
browserSafariBeforeChrome(ua) ==
    IF Contains(ua, kwOPR) \/ Contains(ua, kwOpera) THEN "Opera"
    ELSE IF Contains(ua, kwEdg) \/ Contains(ua, kwEdge) THEN "Edge"
    ELSE IF Contains(ua, kwSafari) THEN "Safari"
    ELSE IF Contains(ua, kwChrome) /\ ~Contains(ua, kwChromium) THEN "Chrome"
    ELSE IF Contains(ua, kwChromium) THEN "Chromium"
    ELSE IF Contains(ua, kwFirefox) THEN "Firefox"
    ELSE IF Contains(ua, kwMSIE) \/ Contains(ua, kwTrident) THEN "Internet Explorer"
    ELSE "Unknown"

\* the first switch of userAgentHandler
browser(ua) ==
    IF Contains(ua, kwOPR) \/ Contains(ua, kwOpera) THEN "Opera"
    ELSE IF Contains(ua, kwEdg) \/ Contains(ua, kwEdge) THEN "Edge"
    ELSE IF Contains(ua, kwChrome) /\ ~Contains(ua, kwChromium) THEN "Chrome"
    ELSE IF Contains(ua, kwChromium) THEN "Chromium"
    ELSE IF Contains(ua, kwFirefox) THEN "Firefox"
    ELSE IF Contains(ua, kwSafari) /\ ~Contains(ua, kwChrome) THEN "Safari"
    ELSE IF Contains(ua, kwMSIE) \/ Contains(ua, kwTrident) THEN "Internet Explorer"
    ELSE "Unknown"

\* the second switch of userAgentHandler
osname(ua) ==
    IF Contains(ua, kwWindows) THEN "Windows"
    ELSE IF Contains(ua, kwMacintosh) THEN "macOS"
    ELSE IF Contains(ua, kwAndroid) THEN "Android"
    ELSE IF Contains(ua, kwiPhone) \/ Contains(ua, kwiPad) THEN "iOS"
    ELSE IF Contains(ua, kwLinux) THEN "Linux"
    ELSE "Unknown"

----------------------------------------------------------------------------
(* Responses *)

StatusOK == 200
StatusBadRequest == 400
StatusNotFound == 404
StatusInternalServerError == 500

TextPlain == "text/plain; charset=utf-8"
AppJSON == "application/json; charset=utf-8"

\* the ResponseWriter before the handler has written to it
NoResp == [status |-> 0, contentType |-> "", body |-> ""]

\* http.Error: the status, a plain-text content type, the message and a newline
httpError(msg, code) == [status |-> code, contentType |-> TextPlain, body |-> msg \o "\n"]

\* fmt.Fprintln on a fresh ResponseWriter: status 200, the text and a newline
Fprintln(ct, text) == [status |-> StatusOK, contentType |-> ct, body |-> text \o "\n"]

----------------------------------------------------------------------------
(* The Redis collaborator *)

\* redis.Nil, the error of a GET for a key that is absent
redisNil == "redis: nil"

\* what seedRedisData stores when both SETs succeed
SeedData == [k \in {"app:name", "user:1:name"} |->
                IF k = "app:name" THEN "go-hello-server" ELSE "Cetriolo"]

\* rdb.Get(ctx, key).Result(): the value and the error ("" for nil)
rdbGet(c, key) ==
    IF c.fault # "" THEN [val |-> "", err |-> c.fault]
    ELSE IF key \notin DOMAIN c.store THEN [val |-> "", err |-> redisNil]
    ELSE [val |-> c.store[key], err |-> ""]

----------------------------------------------------------------------------
(* The requests the handlers are applied to *)

\* values of X-Forwarded-For: every string of digits, commas and blanks up to
\* MaxXFFLen, and the value of TestGetClientIP
ipTwoHops == <<"1", ".", "2", ".", "3", ".", "4", ",", " ", "5", ".", "6", ".", "7", ".", "8">>
XFFValues == StringsUpTo({"1", ",", " "}, MaxXFFLen) \cup {ipTwoHops}

\* values of X-Real-Ip: absent, empty, an address, an address after a blank
ipReal == <<"2", ".", "2", ".", "2", ".", "2">>
XRIHeaders == {<<>>, << <<>> >>, <<ipReal>>, << <<" ", "2">> >>}

\* peer addresses: every string of digits, colons and brackets up to
\* MaxAddrLen, and the addresses of the tests
addrPeer == <<"9", ".", "9", ".", "9", ".", "9", ":", "1", "2", "3", "4">>
addrBad == <<"b", "a", "d", "-", "a", "d", "d", "r">>
addrV6 == <<"[", ":", ":", "1", "]", ":", "8", "0">>
addrAgent == <<"6", ".", "6", ".", "6", ".", "6", ":", "2", "2", "2", "2">>
AddrValues == StringsUpTo({"9", ":", "[", "]"}, MaxAddrLen) \cup {addrPeer, addrBad, addrV6}

BaseReq == [path |-> "/", method |-> "GET", xff |-> <<>>, xri |-> <<>>,
            remoteAddr |-> addrPeer, userAgent |-> <<>>, msg |-> <<>>,
            key |-> <<>>, body |-> "", readErr |-> FALSE]

IPRequests ==
    {[BaseReq EXCEPT !.path = "/ip", !.xff = <<x>>, !.xri = h, !.remoteAddr = a] :
        x \in XFFValues, h \in {<<>>, <<ipReal>>}, a \in {addrPeer, addrBad}}
    \cup
    {[BaseReq EXCEPT !.path = "/ip", !.xff = f, !.xri = h, !.remoteAddr = a] :
        f \in {<<>>, << <<>> >>}, h \in XRIHeaders, a \in AddrValues}

\* user agents: every concatenation of at most MaxTokens keywords, blanks and
\* the two halves of "Chromium", and the user agent of TestUserAgentHandler
UATokens == {kwOPR, kwOpera, kwEdg, kwEdge, kwChrome, kwChromium, kwFirefox,
             kwSafari, kwMSIE, kwTrident, kwWindows, kwMacintosh, kwAndroid,
             kwiPhone, kwiPad, kwLinux, <<" ">>, <<"C", "h", "r", "o", "m">>,
             <<"i", "u", "m">>}

RECURSIVE Concat(_)
Concat(ts) == IF Len(ts) = 0 THEN <<>> ELSE ts[1] \o Concat(Tail(ts))

uaTest == <<"M", "o", "z", "i", "l", "l", "a", "/", "5", ".", "0", " ", "(", "W", "i", "n", "d", "o", "w", "s", " ", "N", "T", " ", "1", "0", ".", "0", ";", " ", "W", "i", "n", "6", "4", ";", " ", "x", "6", "4", ")", " ", "C", "h", "r", "o", "m", "e", "/", "9", "0", ".", "0">>
UAStrings == {Concat(ts) : ts \in StringsUpTo(UATokens, MaxTokens)} \cup {uaTest}

AgentRequests ==
    {[BaseReq EXCEPT !.path = "/agent", !.userAgent = h, !.remoteAddr = addrAgent] :
        h \in {<<>>} \cup {<<u>> : u \in UAStrings}}

EchoRequests ==
    {[BaseReq EXCEPT !.path = "/echo", !.method = m, !.msg = q, !.body = b, !.readErr = e] :
        m \in {"GET", "POST"},
        q \in {<<>>, <<"">>, <<"hello">>, <<"", "hello">>, <<"hello", "again">>},
        b \in {"", "posted-data", "x\n"},
        e \in BOOLEAN}

RedisRequests ==
    {[BaseReq EXCEPT !.path = "/redis", !.key = q] :
        q \in {<<>>, <<"">>, <<"app:name">>, <<"user:1:name">>, <<"nokey">>,
               <<"", "app:name">>}}

\* the cache behind rdb when a request arrives: what the SETs of seedRedisData
\* left in it (either may have failed), and whether it now answers
Caches ==
    {[store |-> [k \in ks |-> SeedData[k]], fault |-> f] :
        ks \in SUBSET (DOMAIN SeedData),
        f \in {"", "i/o timeout", "connection refused"}}

SeededCache == [store |-> SeedData, fault |-> ""]

----------------------------------------------------------------------------
(* The handlers *)

clientIPHandler ==
    /\ req.path = "/ip" /\ resp.status = 0
    /\ resp' = [status |-> StatusOK, contentType |-> TextPlain,
                body |-> getClientIP(req) \o <<"\n">>]
    /\ UNCHANGED <<req, cache, lifeVars>>

userAgentHandler ==
    /\ req.path = "/agent" /\ resp.status = 0
    /\ LET ua == HeaderGet(req.userAgent) IN
       resp' = [status |-> StatusOK, contentType |-> AppJSON,
                body |-> [browser |-> browser(ua), os |-> osname(ua),
                          user_agent |-> ua, client_ip |-> getClientIP(req)]]
    /\ UNCHANGED <<req, cache, lifeVars>>

\* echoHandler writing the POST body with Fprintln
echoHandlerPostNewline ==
    /\ req.path = "/echo" /\ resp.status = 0
    /\ resp' =
        IF req.method = "GET"
        THEN LET msg == QueryGet(req.msg) IN
             IF msg = "" THEN Fprintln(TextPlain, "no message")
             ELSE Fprintln(TextPlain, msg)
        ELSE IF req.readErr THEN httpError("failed to read body", StatusBadRequest)
        ELSE IF Len(req.body) = 0 THEN Fprintln(TextPlain, "empty body")
        ELSE Fprintln(TextPlain, req.body)
    /\ UNCHANGED <<req, cache, lifeVars>>

echoHandler ==
    /\ req.path = "/echo" /\ resp.status = 0
    /\ resp' =
        IF req.method = "GET"
        THEN LET msg == QueryGet(req.msg) IN
             IF msg = "" THEN Fprintln(TextPlain, "no message")
             ELSE Fprintln(TextPlain, msg)
        ELSE IF req.readErr THEN httpError("failed to read body", StatusBadRequest)
        ELSE IF Len(req.body) = 0 THEN Fprintln(TextPlain, "empty body")
        ELSE [status |-> StatusOK, contentType |-> TextPlain, body |-> req.body]
    /\ UNCHANGED <<req, cache, lifeVars>>

\* redisHandler putting the error of the cache into the 500 response
redisHandlerLeakingCause ==
    /\ req.path = "/redis" /\ resp.status = 0
    /\ LET key == QueryGet(req.key)
           got == rdbGet(cache, key)
       IN
       resp' =
        IF key = "" THEN httpError("Query parameter 'key' is required", StatusBadRequest)
        ELSE IF got.err = redisNil
             THEN httpError("Key '" \o key \o "' not found", StatusNotFound)
        ELSE IF got.err # ""
             THEN httpError("Failed to retrieve data from Redis: " \o got.err,
                            StatusInternalServerError)
        ELSE Fprintln(TextPlain, got.val)
    /\ UNCHANGED <<req, cache, lifeVars>>

redisHandler ==
    /\ req.path = "/redis" /\ resp.status = 0
    /\ LET key == QueryGet(req.key)
           got == rdbGet(cache, key)
       IN
       resp' =
        IF key = "" THEN httpError("Query parameter 'key' is required", StatusBadRequest)
        ELSE IF got.err = redisNil
             THEN httpError("Key '" \o key \o "' not found", StatusNotFound)
        ELSE IF got.err # ""
             THEN httpError("Failed to retrieve data from Redis", StatusInternalServerError)
        ELSE Fprintln(TextPlain, got.val)
    /\ UNCHANGED <<req, cache, lifeVars>>

----------------------------------------------------------------------------
(* Specification of the handlers: one request, handled once *)

\* the lifecycle while requests are served: main waits for the signal and
\* the accept loop runs
LifeServing ==
    /\ mainPC = "wait" /\ servePC = "serving"
    /\ env = [dbOK |-> TRUE, pingOK |-> TRUE, bindOK |-> TRUE]
    /\ sigChan = 0 /\ inShutdown = FALSE
    /\ inflight = 1 /\ accepted = 1 /\ responded = 0 /\ elapsed = 0
    /\ exitStatus = "running"

Init ==
    /\ req \in IPRequests \cup AgentRequests \cup EchoRequests \cup RedisRequests
    /\ cache \in (IF req.path = "/redis" THEN Caches ELSE {SeededCache})
    /\ resp = NoResp
    /\ LifeServing

Next ==
    \/ clientIPHandler
    \/ userAgentHandler
    \/ echoHandler
    \/ redisHandler

Spec == Init /\ [][Next]_vars

----------------------------------------------------------------------------
(* The process: main, the goroutine of ListenAndServe, waitForShutdown *)

\* the grace period of waitForShutdown, in seconds
ShutdownTimeout == 10

Running == exitStatus = "running"

\* signal.Notify has run: signals go to interruptChan
NotifyRegistered == mainPC \in {"wait", "ctx", "shutdown", "drain", "log", "exit"}

\* waitForShutdown has taken the signal from interruptChan
SignalReceived == mainPC \in {"ctx", "shutdown", "drain", "log", "exit"}

\* initRedis only logging a bad REDIS_DB or a failed ping, and going on
initRedisLogsAndContinues ==
    /\ Running /\ mainPC = "initRedis"
    /\ mainPC' = "seed"
    /\ UNCHANGED <<reqVars, servePC, env, sigChan, inShutdown, inflight, accepted,
                   responded, elapsed, exitStatus>>

\* initRedis: a REDIS_DB that is no number, or a failed ping, is fatal
initRedis ==
    /\ Running /\ mainPC = "initRedis"
    /\ IF env.dbOK /\ env.pingOK
       THEN mainPC' = "seed" /\ UNCHANGED exitStatus
       ELSE exitStatus' = "1" /\ UNCHANGED mainPC
    /\ UNCHANGED <<reqVars, servePC, env, sigChan, inShutdown, inflight, accepted,
                   responded, elapsed>>

\* seedRedisData: two SETs, each of which may fail and is then only logged
seedRedisData ==
    /\ Running /\ mainPC = "seed"
    /\ \E ks \in SUBSET (DOMAIN SeedData) :
          cache' = [cache EXCEPT !.store = [k \in ks |-> SeedData[k]]]
    /\ mainPC' = "go"
    /\ UNCHANGED <<req, resp, servePC, env, sigChan, inShutdown, inflight, accepted,
                   responded, elapsed, exitStatus>>

\* main builds the router and the server and starts the goroutine
StartServer ==
    /\ Running /\ mainPC = "go"
    /\ mainPC' = "notify" /\ servePC' = "start"
    /\ UNCHANGED <<reqVars, env, sigChan, inShutdown, inflight, accepted, responded,
                   elapsed, exitStatus>>

\* waitForShutdown: make(chan os.Signal, 1) and signal.Notify
Notify ==
    /\ Running /\ mainPC = "notify"
    /\ mainPC' = "wait"
    /\ UNCHANGED <<reqVars, servePC, env, sigChan, inShutdown, inflight, accepted,
                   responded, elapsed, exitStatus>>

\* the operating system delivers SIGINT or SIGTERM: into interruptChan when
\* it has room, and with the default disposition before signal.Notify
Signal ==
    /\ Running
    /\ IF NotifyRegistered
       THEN sigChan = 0 /\ sigChan' = 1 /\ UNCHANGED exitStatus
       ELSE exitStatus' = "signal" /\ UNCHANGED sigChan
    /\ UNCHANGED <<reqVars, mainPC, servePC, env, inShutdown, inflight, accepted,
                   responded, elapsed>>

\* <-interruptChan
Receive ==
    /\ Running /\ mainPC = "wait" /\ sigChan = 1
    /\ sigChan' = 0 /\ mainPC' = "ctx"
    /\ UNCHANGED <<reqVars, servePC, env, inShutdown, inflight, accepted, responded,
                   elapsed, exitStatus>>

\* context.WithTimeout(context.Background(), time.Second*10)
WithTimeout ==
    /\ Running /\ mainPC = "ctx"
    /\ mainPC' = "shutdown" /\ elapsed' = 0
    /\ UNCHANGED <<reqVars, servePC, env, sigChan, inShutdown, inflight, accepted,
                   responded, exitStatus>>

\* a second of the grace period passes
Tick ==
    /\ Running /\ mainPC \in {"shutdown", "drain", "log", "exit"}
    /\ elapsed < ShutdownTimeout
    /\ elapsed' = elapsed + 1
    /\ UNCHANGED <<reqVars, mainPC, servePC, env, sigChan, inShutdown, inflight,
                   accepted, responded, exitStatus>>

\* srv.Shutdown(ctx) is entered: the server is marked shutting down and its
\* listener is closed
Shutdown ==
    /\ Running /\ mainPC = "shutdown"
    /\ inShutdown' = TRUE /\ mainPC' = "drain"
    /\ UNCHANGED <<reqVars, servePC, env, sigChan, inflight, accepted, responded,
                   elapsed, exitStatus>>

\* srv.Shutdown(ctx) returns: no request is being handled, or ctx is done
ShutdownReturns ==
    /\ Running /\ mainPC = "drain"
    /\ inflight = 0 \/ elapsed >= ShutdownTimeout
    /\ mainPC' = "log"
    /\ UNCHANGED <<reqVars, servePC, env, sigChan, inShutdown, inflight, accepted,
                   responded, elapsed, exitStatus>>

\* log.Println("Shutting down")
LogShuttingDown ==
    /\ Running /\ mainPC = "log"
    /\ mainPC' = "exit"
    /\ UNCHANGED <<reqVars, servePC, env, sigChan, inShutdown, inflight, accepted,
                   responded, elapsed, exitStatus>>

\* os.Exit(0)
Exit ==
    /\ Running /\ mainPC = "exit"
    /\ exitStatus' = "0"
    /\ UNCHANGED <<reqVars, mainPC, servePC, env, sigChan, inShutdown, inflight,
                   accepted, responded, elapsed>>

\* the goroutine: log.Println("Starting Server")
LogStarting ==
    /\ Running /\ servePC = "start"
    /\ servePC' = "listen"
    /\ UNCHANGED <<reqVars, mainPC, env, sigChan, inShutdown, inflight, accepted,
                   responded, elapsed, exitStatus>>

\* srv.ListenAndServe() is entered: it returns http.ErrServerClosed when the
\* server is shutting down and the bind error when :8080 cannot be bound;
\* otherwise the accept loop starts
ListenAndServe ==
    /\ Running /\ servePC = "listen"
    /\ servePC' = IF inShutdown \/ ~env.bindOK THEN "returned" ELSE "serving"
    /\ UNCHANGED <<reqVars, mainPC, env, sigChan, inShutdown, inflight, accepted,
                   responded, elapsed, exitStatus>>

\* the accept loop takes a connection; its request is handled on a goroutine
\* of its own.  First the loop as it would be if it did not see the closed
\* listener, then the loop of net/http:
AcceptOnClosedListener ==
    /\ Running /\ servePC = "serving"
    /\ inflight < MaxConns /\ accepted < MaxAccepts
    /\ inflight' = inflight + 1 /\ accepted' = accepted + 1
    /\ UNCHANGED <<reqVars, mainPC, servePC, env, sigChan, inShutdown, responded,
                   elapsed, exitStatus>>

Accept ==
    /\ Running /\ servePC = "serving" /\ ~inShutdown
    /\ inflight < MaxConns /\ accepted < MaxAccepts
    /\ inflight' = inflight + 1 /\ accepted' = accepted + 1
    /\ UNCHANGED <<reqVars, mainPC, servePC, env, sigChan, inShutdown, responded,
                   elapsed, exitStatus>>

\* a handler returns: the response of its request has been produced
Complete ==
    /\ Running /\ inflight > 0
    /\ inflight' = inflight - 1 /\ responded' = responded + 1
    /\ UNCHANGED <<reqVars, mainPC, servePC, env, sigChan, inShutdown, accepted,
                   elapsed, exitStatus>>

\* the listener was closed under the accept loop: ListenAndServe returns
\* http.ErrServerClosed
ServeReturns ==
    /\ Running /\ servePC = "serving" /\ inShutdown
    /\ servePC' = "returned"
    /\ UNCHANGED <<reqVars, mainPC, env, sigChan, inShutdown, inflight, accepted,
                   responded, elapsed, exitStatus>>

\* if err := srv.ListenAndServe(); err != nil { log.Fatal(err) }: the error
\* is never nil, and log.Fatal is os.Exit(1)
Fatal ==
    /\ Running /\ servePC = "returned"
    /\ exitStatus' = "1"
    /\ UNCHANGED <<reqVars, mainPC, servePC, env, sigChan, inShutdown, inflight,
                   accepted, responded, elapsed>>

InitLife ==
    /\ req = BaseReq /\ resp = NoResp
    /\ cache = [store |-> <<>>, fault |-> ""]
    /\ mainPC = "initRedis" /\ servePC = "notStarted"
    /\ env \in [dbOK : BOOLEAN, pingOK : BOOLEAN, bindOK : BOOLEAN]
    /\ sigChan = 0 /\ inShutdown = FALSE
    /\ inflight = 0 /\ accepted = 0 /\ responded = 0 /\ elapsed = 0
    /\ exitStatus = "running"

NextLife ==
    \/ initRedis
    \/ seedRedisData
    \/ StartServer
    \/ Notify
    \/ Signal
    \/ Receive
    \/ WithTimeout
    \/ Tick
    \/ Shutdown
    \/ ShutdownReturns
    \/ LogShuttingDown
    \/ Exit
    \/ LogStarting
    \/ ListenAndServe
    \/ Accept
    \/ Complete
    \/ ServeReturns
    \/ Fatal

SpecLife == InitLife /\ [][NextLife]_vars

\* the Go scheduler runs every goroutine that can run: the steps of main up
\* to the start of the goroutine, and the steps of the goroutine, are taken
\* when they stay possible.  Signals, the passing of time, connections and
\* the handlers' return are under no such obligation.
SpecLifeFair ==
    /\ SpecLife
    /\ WF_vars(initRedis) /\ WF_vars(seedRedisData) /\ WF_vars(StartServer)
    /\ WF_vars(LogStarting) /\ WF_vars(ListenAndServe) /\ WF_vars(Fatal)

----------------------------------------------------------------------------
(* Properties of getClientIP, read off the response of clientIPHandler *)

\* clientIPHandler has answered req
IPHandled == req.path = "/ip" /\ resp.status # 0

\* the address clientIPHandler printed: the body without its newline
PrintedIP == SubSeq(resp.body, 1, Len(resp.body) - 1)

\* the first comma-separated element of s
FirstElement(s) ==
    IF \E i \in 1..Len(s) : s[i] = ","
    THEN SubSeq(s, 1, (CHOOSE i \in 1..Len(s) :
                          s[i] = "," /\ \A j \in 1..(i - 1) : s[j] # ",") - 1)
    ELSE s

\* t is s without the white space around it
IsTrimOf(t, s) ==
    /\ t = <<>> \/ (~IsSpace(t[1]) /\ ~IsSpace(t[Len(t)]))
    /\ \E a \in 0..Len(s) :
          /\ a + Len(t) <= Len(s)
          /\ SubSeq(s, a + 1, a + Len(t)) = t
          /\ \A i \in 1..Len(s) : (i <= a \/ i > a + Len(t)) => IsSpace(s[i])

\* C1: a non-empty X-Forwarded-For decides the address, whatever X-Real-Ip
\* and the peer address are: the address is the header's first
\* comma-separated element without the white space around it.  X-Real-Ip is
\* returned verbatim when X-Forwarded-For is absent or empty and X-Real-Ip is
\* not; in the one remaining case the address is a part of the peer address.
C1_PriorityOrder ==
    IPHandled =>
        LET xff == HeaderGet(req.xff)
            xr == HeaderGet(req.xri)
        IN
        /\ xff # <<>> => IsTrimOf(PrintedIP, FirstElement(xff))
        /\ (xff = <<>> /\ xr # <<>>) => PrintedIP = xr
        /\ (xff = <<>> /\ xr = <<>>) =>
              Contains(req.remoteAddr, PrintedIP)

\* C1 witness: X-Forwarded-For "1.2.3.4, 5.6.7.8" wins over a present
\* X-Real-Ip and the peer address
C1_Witness ==
    /\ IPHandled
    /\ req.xff = <<ipTwoHops>> /\ req.xri = <<ipReal>> /\ req.remoteAddr = addrPeer
    /\ PrintedIP = <<"1", ".", "2", ".", "3", ".", "4">>

\* C2: the address getClientIP returns is never empty, here for every header
\* mapping and every peer address host:port that has a host
C2_NeverEmpty ==
    (IPHandled /\ SplitHostPort(req.remoteAddr).ok
               /\ SplitHostPort(req.remoteAddr).host # <<>>) => PrintedIP # <<>>

\* the host of the peer address "9.9.9.9:1234"
hostPeer == <<"9", ".", "9", ".", "9", ".", "9">>

\* C3: with no non-empty X-Forwarded-For or X-Real-Ip, the address is the
\* host of the peer address when it parses as host:port and the peer address
\* itself when it does not; an address without a colon never parses
C3_PeerAddressFallback ==
    (IPHandled /\ HeaderGet(req.xff) = <<>> /\ HeaderGet(req.xri) = <<>>) =>
        LET hp == SplitHostPort(req.remoteAddr) IN
        /\ hp.ok => PrintedIP = hp.host
        /\ ~hp.ok => PrintedIP = req.remoteAddr
        /\ (\A i \in 1..Len(req.remoteAddr) : req.remoteAddr[i] # ":") => ~hp.ok
        /\ req.remoteAddr = addrPeer => PrintedIP = hostPeer
        /\ req.remoteAddr = addrBad => PrintedIP = addrBad

\* C3 witness: "9.9.9.9:1234" with no forwarding header gives "9.9.9.9"
C3_Witness ==
    /\ IPHandled /\ req.xff = <<>> /\ req.xri = <<>>
    /\ req.remoteAddr = addrPeer /\ PrintedIP = hostPeer

----------------------------------------------------------------------------
(* Properties of userAgentHandler *)

AgentHandled == req.path = "/agent" /\ resp.status # 0

\* the label of the first rule that matches, rules being <<condition, label>>
FirstMatch(rules, default) ==
    IF \E i \in 1..Len(rules) : rules[i][1]
    THEN rules[CHOOSE i \in 1..Len(rules) :
                  rules[i][1] /\ \A j \in 1..(i - 1) : ~rules[j][1]][2]
    ELSE default

BrowserRules(ua) ==
    << <<Contains(ua, kwOPR) \/ Contains(ua, kwOpera), "Opera">>,
       <<Contains(ua, kwEdg) \/ Contains(ua, kwEdge), "Edge">>,
       <<Contains(ua, kwChrome) /\ ~Contains(ua, kwChromium), "Chrome">>,
       <<Contains(ua, kwChromium), "Chromium">>,
       <<Contains(ua, kwFirefox), "Firefox">>,
       <<Contains(ua, kwSafari) /\ ~Contains(ua, kwChrome), "Safari">>,
       <<Contains(ua, kwMSIE) \/ Contains(ua, kwTrident), "Internet Explorer">> >>

OSRules(ua) ==
    << <<Contains(ua, kwWindows), "Windows">>,
       <<Contains(ua, kwMacintosh), "macOS">>,
       <<Contains(ua, kwAndroid), "Android">>,
       <<Contains(ua, kwiPhone) \/ Contains(ua, kwiPad), "iOS">>,
       <<Contains(ua, kwLinux), "Linux">> >>

BrowserLabels == {"Opera", "Edge", "Chrome", "Chromium", "Firefox", "Safari",
                  "Internet Explorer", "Unknown"}
OSLabels == {"Windows", "macOS", "Android", "iOS", "Linux", "Unknown"}

\* C7: both labels are those of the first matching rule in the stated order,
\* Unknown when no rule matches, and are drawn from the closed sets
C7_FirstMatchingRule ==
    AgentHandled =>
        LET ua == HeaderGet(req.userAgent) IN
        /\ resp.body.browser = FirstMatch(BrowserRules(ua), "Unknown")
        /\ resp.body.os = FirstMatch(OSRules(ua), "Unknown")
        /\ resp.body.browser \in BrowserLabels
        /\ resp.body.os \in OSLabels

\* C7 witness: a user agent in which a later rule matches too (Edge before
\* Chrome, Android before Linux)
C7_Witness ==
    /\ AgentHandled
    /\ req.userAgent = <<kwChrome \o kwEdg \o kwAndroid>>
    /\ resp.body.browser = "Edge" /\ resp.body.os = "Android"

\* C8 as stated: Chrome without Chromium, and Windows, give Chrome on Windows
C8_ChromeOnWindows ==
    AgentHandled =>
        LET ua == HeaderGet(req.userAgent) IN
        (Contains(ua, kwChrome) /\ ~Contains(ua, kwChromium) /\ Contains(ua, kwWindows))
            => (resp.body.browser = "Chrome" /\ resp.body.os = "Windows")

\* C8 amended: Chrome without Chromium, none of OPR, Opera and Edg, and
\* Windows, give Chrome on Windows
C8_ChromeOnWindowsNoOperaNoEdge ==
    AgentHandled =>
        LET ua == HeaderGet(req.userAgent) IN
        (/\ Contains(ua, kwChrome) /\ ~Contains(ua, kwChromium)
         /\ ~Contains(ua, kwOPR) /\ ~Contains(ua, kwOpera) /\ ~Contains(ua, kwEdg)
         /\ Contains(ua, kwWindows))
            => (resp.body.browser = "Chrome" /\ resp.body.os = "Windows")

\* C8 witness: the user agent of TestUserAgentHandler is Chrome on Windows
C8_Witness ==
    /\ AgentHandled /\ req.userAgent = <<uaTest>>
    /\ resp.body.browser = "Chrome" /\ resp.body.os = "Windows"

----------------------------------------------------------------------------
(* Properties of redisHandler and echoHandler *)

RedisHandled == req.path = "/redis" /\ resp.status # 0
EchoHandled == req.path = "/echo" /\ resp.status # 0

\* C9: 400 without a key; 404 naming the key when the cache has no such key;
\* 500 with the same message whatever the cause when the cache fails; else
\* 200 with the stored value and a newline
C9_FourOutcomes ==
    RedisHandled =>
        LET key == IF req.key = <<>> THEN "" ELSE req.key[1] IN
        /\ resp.status \in {400, 404, 500, 200}
        /\ key = "" => resp.status = 400
        /\ (key # "" /\ cache.fault = "" /\ key \notin DOMAIN cache.store) =>
              (resp.status = 404 /\ resp.body = "Key '" \o key \o "' not found\n")
        /\ (key # "" /\ cache.fault # "") =>
              (resp.status = 500 /\ resp.body = "Failed to retrieve data from Redis\n")
        /\ (key # "" /\ cache.fault = "" /\ key \in DOMAIN cache.store) =>
              (resp.status = 200 /\ resp.body = cache.store[key] \o "\n")

\* C9 witness: a key the cache does not hold gives 404 with the key in the message
C9_Witness ==
    /\ RedisHandled /\ req.key = <<"nokey">> /\ cache.fault = ""
    /\ resp.status = 404 /\ resp.body = "Key 'nokey' not found\n"

\* C10 as stated: GET echoes msg and a newline whenever msg is present
C10_EchoAsStated ==
    EchoHandled =>
        /\ (req.method = "GET" /\ req.msg # <<>>) => resp.body = req.msg[1] \o "\n"
        /\ (req.method = "GET" /\ req.msg = <<>>) => resp.body = "no message\n"
        /\ (req.method = "POST" /\ req.readErr) => resp.status = 400
        /\ (req.method = "POST" /\ ~req.readErr /\ req.body # "") => resp.body = req.body
        /\ (req.method = "POST" /\ ~req.readErr /\ req.body = "") => resp.body = "empty body\n"

\* C10 amended: GET echoes msg and a newline when msg is present and not
\* empty, and answers "no message\n" when msg is absent or empty; POST as stated
C10_Echo ==
    EchoHandled =>
        /\ (req.method = "GET" /\ req.msg # <<>> /\ req.msg[1] # "") =>
              (resp.status = 200 /\ resp.body = req.msg[1] \o "\n")
        /\ (req.method = "GET" /\ (req.msg = <<>> \/ req.msg[1] = "")) =>
              (resp.status = 200 /\ resp.body = "no message\n")
        /\ (req.method = "POST" /\ req.readErr) => resp.status = 400
        /\ (req.method = "POST" /\ ~req.readErr /\ req.body # "") =>
              (resp.status = 200 /\ resp.body = req.body)
        /\ (req.method = "POST" /\ ~req.readErr /\ req.body = "") =>
              (resp.status = 200 /\ resp.body = "empty body\n")

\* C10 witness: a POST of "posted-data" is echoed verbatim
C10_Witness ==
    /\ EchoHandled /\ req.method = "POST" /\ ~req.readErr
    /\ req.body = "posted-data" /\ resp.body = "posted-data"

----------------------------------------------------------------------------
(* Properties of the lifecycle *)

Exited == exitStatus # "running"

\* C4: once waitForShutdown has received the signal, a process that could
\* bind its port and has ended has ended with status 0
C4_ExitStatusZero == (SignalReceived /\ Exited /\ env.bindOK) => exitStatus = "0"

\* C5: after the signal, the process has not ended while a request is being
\* handled and the grace period has not elapsed
C5_InFlightNotCutShort ==
    (SignalReceived /\ Exited /\ inflight > 0) => elapsed >= ShutdownTimeout

----------------------------------------------------------------------------
(* Properties of startup *)

\* the cache answered the ping (and REDIS_DB was a number)
CacheChecked == env.dbOK /\ env.pingOK

\* a fatal startup error is in store for this run
StartupFails == ~CacheChecked \/ ~env.bindOK

\* what holds of every state of a run, whatever its environment
StartupSafe ==
    \* the goroutine of ListenAndServe exists only after the ping succeeded
    /\ servePC # "notStarted" => CacheChecked
    \* a failed check ends the process in initRedis itself, with status 1
    \* (or by a signal that came first): main goes no further
    /\ ~CacheChecked => (mainPC = "initRedis" /\ exitStatus \in {"running", "1", "signal"})
    \* the accept loop runs only on a bound socket
    /\ servePC = "serving" => env.bindOK
    \* with a fatal startup error no request is ever accepted or handled
    /\ StartupFails => (accepted = 0 /\ inflight = 0 /\ responded = 0)

\* C11: the server listens only after the ping has succeeded; when the ping
\* fails or :8080 cannot be bound, no request is ever handled, the failed
\* step is not tried again, and the process ends
C11_FatalStartup ==
    /\ []StartupSafe
    /\ [][(servePC = "returned" => servePC' = "returned")
          /\ (mainPC # "initRedis" => mainPC' # "initRedis")]_vars
    /\ StartupFails ~> Exited

\* C11 witness: the ping failed and initRedis has ended the process with
\* status 1, before the goroutine of ListenAndServe was started
C11_Witness ==
    /\ env.dbOK /\ ~env.pingOK /\ env.bindOK
    /\ mainPC = "initRedis" /\ servePC = "notStarted"
    /\ exitStatus = "1" /\ accepted = 0

====
